---- MODULE Spec2Model ----
(***************************************************************************)
(* Model of msgime (src/msgime/msgime.go): the Compound File Binary header *)
(* reader.  Two specifications are given:                                  *)
(*   Spec      NewCompoundFile, step by step, on a file image chosen in    *)
(*             Init, followed by the operations of the returned handle;    *)
(*   SpecPure  the pure helpers (codec, validator, sector locator) applied *)
(*             to inputs chosen in InitPure.                               *)
(* uint64 values are kept as 8 base-256 limbs, least significant first, so *)
(* that the 64-bit wrap-around of the Go arithmetic is preserved.          *)
(***************************************************************************)
EXTENDS Integers, Sequences, FiniteSets, TLC

VARIABLES
    file,      \* the file system entry named by filepath: exists, size, data
    pc,        \* position inside NewCompoundFile
    fileOpen,  \* TRUE while the *os.File descriptor is open
    filePos,   \* current offset of the descriptor (uint64 limbs)
    cfile,     \* the defaultCompoundFile under construction
    locals,    \* littleEndian, sectorID, sectorSize, sectorPosition
    ret,       \* what NewCompoundFile returned: handle and err
    trace,     \* history: the steps NewCompoundFile has executed, in order
    result,    \* outcome of the last operation invoked on the handle
    fn,        \* SpecPure: the helper under evaluation
    arg,       \* SpecPure: its input
    out        \* SpecPure: its output

vars == <<file, pc, fileOpen, filePos, cfile, locals, ret, trace, result, fn, arg, out>>

ctorVars == <<file, pc, fileOpen, filePos, cfile, locals, ret, trace, result>>
pureVars == <<fn, arg, out>>

-----------------------------------------------------------------------------
(* Bounds of the model                                                     *)

\* longest byte slice handed to validateFileIdentifier (the magics have 8)
MaxIdLen == 9
\* longest byte slice handed to the integer decoders
MaxDecodeLen == 8
\* largest sector-size exponent handed to getSectorPosition in SpecPure
MaxExp == 65
\* number of 512-byte sectors a file image may hold after the first entry
MaxSectors == 2

-----------------------------------------------------------------------------
(* Program constants                                                       *)

HeaderSize == 512
DirEntrySize == 128
U64Limbs == 8
RootStorageType == 5
LittleEndianMark == 254

uuidMimeTypeMap ==
    ("00020906-0000-0000-c000-000000000046" :> "application/msword") @@
    ("00020820-0000-0000-c000-000000000046" :> "application/vnd.ms-excel") @@
    ("00020810-0000-0000-c000-000000000046" :> "application/vnd.ms-excel")

DefaultMimeType == "application/octet-stream"

validFileIdentifiers ==
    << <<\Hd0, \Hcf, \H11, \He0, \Ha1, \Hb1, \H1a, \He1>>,
       <<\H0e, \H11, \Hfc, \H0d, \Hd0, \Hcf, \H11, \He0>> >>

fieldPosition(o, s) == [offset |-> o, size |-> s]

headerMap ==
    ("FileIdentifier" :> fieldPosition(0, 8)) @@
    ("UUIDOfFile" :> fieldPosition(8, 16)) @@
    ("RevisionNumber" :> fieldPosition(24, 2)) @@
    ("VersionNumber" :> fieldPosition(26, 2)) @@
    ("ByteOrderIdentifier" :> fieldPosition(28, 2)) @@
    ("SizeOfSector" :> fieldPosition(30, 2)) @@
    ("SizeOfShortSector" :> fieldPosition(32, 2)) @@
    ("Reserved" :> fieldPosition(34, 10)) @@
    ("TotalSectors" :> fieldPosition(44, 4)) @@
    ("FirstSectorID" :> fieldPosition(48, 4)) @@
    ("Reserved1" :> fieldPosition(52, 4)) @@
    ("MinSizeOfStdStream" :> fieldPosition(56, 4)) @@
    ("FirstShortSectorID" :> fieldPosition(60, 4)) @@
    ("TotalSectorsUsedForShortSectorAllocationTable" :> fieldPosition(64, 4)) @@
    ("FistMasterSectorID" :> fieldPosition(68, 4)) @@
    ("TotalSectorsUsedForMasterSectorAllocationTable" :> fieldPosition(72, 4)) @@
    ("FirstPartOfMasterAllocationTable" :> fieldPosition(76, 436))

directoryMap ==
    ("EntryName" :> fieldPosition(0, 64)) @@
    ("SizeOfEntryNameInCharacters" :> fieldPosition(64, 2)) @@
    ("Type" :> fieldPosition(66, 1)) @@
    ("NodeColorr" :> fieldPosition(67, 1)) @@
    ("DirIDOfLeftChild" :> fieldPosition(68, 4)) @@
    ("DirIDOfRighttChild" :> fieldPosition(72, 4)) @@
    ("DirIDOfRoot" :> fieldPosition(76, 4)) @@
    ("CLSID" :> fieldPosition(80, 16)) @@
    ("UserFlags" :> fieldPosition(96, 4)) @@
    ("EntryCreationTimpestamp" :> fieldPosition(100, 8)) @@
    ("EntryModificationTimpestamp" :> fieldPosition(108, 8)) @@
    ("FistSectorID" :> fieldPosition(116, 4)) @@
    ("TotalStreamSizeInBytes" :> fieldPosition(120, 4)) @@
    ("Reserved" :> fieldPosition(124, 4))

-----------------------------------------------------------------------------
(* Unsigned arithmetic on limbs (base 256, least significant limb first)   *)

WideLimbs == U64Limbs + U64Limbs

\* a small natural number (below 2^31) as n limbs
FromNat(v, n) ==
    [i \in 1..n |-> IF i <= 4 THEN (v \div (256 ^ (i - 1))) % 256 ELSE 0]

\* the value of limbs that are known to denote a number below 2^24
ToNat(a) == a[1] + 256 * a[2] + 65536 * a[3]

FitsNat(a) == \A i \in 4..Len(a) : a[i] = 0

RECURSIVE CarryProp(_, _, _)
CarryProp(cols, i, carry) ==
    IF i > Len(cols) THEN <<>>
    ELSE LET t == cols[i] + carry
         IN  <<t % 256>> \o CarryProp(cols, i + 1, t \div 256)

RECURSIVE ColSum(_, _, _, _)
ColSum(a, b, k, i) ==
    IF i > k THEN 0 ELSE a[i] * b[k - i + 1] + ColSum(a, b, k, i + 1)

\* a * b modulo 256^n, for a and b of n limbs
MulLimbs(a, b) ==
    CarryProp([k \in 1..Len(a) |-> ColSum(a, b, k, 1)], 1, 0)

\* a + b modulo 256^n
AddLimbs(a, b) ==
    CarryProp([k \in 1..Len(a) |-> a[k] + b[k]], 1, 0)

RECURSIVE LessFrom(_, _, _)
LessFrom(a, b, i) ==
    IF i = 0 THEN FALSE
    ELSE IF a[i] # b[i] THEN a[i] < b[i]
    ELSE LessFrom(a, b, i - 1)

\* a < b, for a and b of the same number of limbs
LessLimbs(a, b) == LessFrom(a, b, Len(a))

\* 2^e as n limbs (0 when 2^e does not fit)
Pow2Limbs(e, n) ==
    [i \in 1..n |-> IF i = (e \div 8) + 1 THEN 2 ^ (e % 8) ELSE 0]

\* widen or truncate to n limbs
Resize(a, n) == [i \in 1..n |-> IF i <= Len(a) THEN a[i] ELSE 0]

\* the conversion int64(x) of a uint64 x is negative iff bit 63 is set
Int64Negative(a) == a[U64Limbs] >= 128

-----------------------------------------------------------------------------
(* Endian codec                                                            *)

RECURSIVE decodeUInt64Loop(_, _, _, _)
decodeUInt64Loop(littleEndian, value, i, returnValue) ==
    IF i >= Len(value) THEN returnValue
    ELSE LET b == IF littleEndian THEN value[Len(value) - (i + 1) + 1]
                                  ELSE value[i + 1]
             \* (returnValue << 8) | uint64(b)
             shifted == <<b>> \o SubSeq(returnValue, 1, U64Limbs - 1)
         IN  decodeUInt64Loop(littleEndian, value, i + 1, shifted)

decodeValueAsUInt64(littleEndian, value) ==
    decodeUInt64Loop(littleEndian, value, 0, FromNat(0, U64Limbs))

RECURSIVE decodeUInt16Loop(_, _, _, _)
decodeUInt16Loop(littleEndian, value, i, returnValue) ==
    IF i >= Len(value) THEN returnValue
    ELSE LET b == IF littleEndian THEN value[Len(value) - (i + 1) + 1]
                                  ELSE value[i + 1]
             \* (returnValue << 8) | uint16(b), in 16 bits
             shifted == ((returnValue * 256) % 65536) + b
         IN  decodeUInt16Loop(littleEndian, value, i + 1, shifted)

decodeValueAsUInt16(littleEndian, value) ==
    decodeUInt16Loop(littleEndian, value, 0, 0)

HexDigit == <<"0", "1", "2", "3", "4", "5", "6", "7",
              "8", "9", "a", "b", "c", "d", "e", "f">>

\* the 16 hexadecimal digits of a uint64, most significant first
Nibbles(v) ==
    [k \in 1..(2 * U64Limbs) |->
        LET limb == v[U64Limbs - ((k - 1) \div 2)]
        IN  IF k % 2 = 1 THEN limb \div 16 ELSE limb % 16]

RECURSIVE StripLeadingZeros(_)
StripLeadingZeros(d) ==
    IF Len(d) > 1 /\ d[1] = 0 THEN StripLeadingZeros(Tail(d)) ELSE d

RECURSIVE PadZeros(_, _)
PadZeros(d, width) ==
    IF Len(d) < width THEN PadZeros(<<0>> \o d, width) ELSE d

RECURSIVE DigitsToString(_)
DigitsToString(d) ==
    IF d = <<>> THEN "" ELSE HexDigit[d[1] + 1] \o DigitsToString(Tail(d))

\* fmt.Sprintf("%0<width>x", v): at least width digits, never truncated
SprintfHex(width, v) ==
    DigitsToString(PadZeros(StripLeadingZeros(Nibbles(v)), width))

\* variant: every group is decoded in the file's declared byte order
decodeValueAsUUIDDeclaredOrder(littleEndian, value) ==
    SprintfHex(8, decodeValueAsUInt64(littleEndian, SubSeq(value, 1, 4))) \o "-" \o
    SprintfHex(4, decodeValueAsUInt64(littleEndian, SubSeq(value, 5, 6))) \o "-" \o
    SprintfHex(4, decodeValueAsUInt64(littleEndian, SubSeq(value, 7, 8))) \o "-" \o
    SprintfHex(4, decodeValueAsUInt64(littleEndian, SubSeq(value, 9, 10))) \o "-" \o
    SprintfHex(12, decodeValueAsUInt64(littleEndian, SubSeq(value, 11, 16)))

decodeValueAsUUID(littleEndian, value) ==
    LET bytes1To4   == decodeValueAsUInt64(TRUE, SubSeq(value, 1, 4))
        bytes5To6   == decodeValueAsUInt64(TRUE, SubSeq(value, 5, 6))
        bytes7To8   == decodeValueAsUInt64(TRUE, SubSeq(value, 7, 8))
        bytes9To10  == decodeValueAsUInt64(FALSE, SubSeq(value, 9, 10))
        bytes11To16 == decodeValueAsUInt64(FALSE, SubSeq(value, 11, 16))
    IN  SprintfHex(8, bytes1To4) \o "-" \o SprintfHex(4, bytes5To6) \o "-" \o
        SprintfHex(4, bytes7To8) \o "-" \o SprintfHex(4, bytes9To10) \o "-" \o
        SprintfHex(12, bytes11To16)

-----------------------------------------------------------------------------
(* Structural validator                                                    *)

RECURSIVE identifierInnerLoop(_, _, _)
identifierInnerLoop(fileIdentifier, i, j) ==
    IF j >= Len(fileIdentifier) THEN FALSE
    ELSE IF fileIdentifier[j + 1] # validFileIdentifiers[i + 1][j + 1] THEN FALSE
    ELSE IF j = Len(fileIdentifier) - 1 THEN TRUE
    ELSE identifierInnerLoop(fileIdentifier, i, j + 1)

RECURSIVE identifierOuterLoop(_, _)
identifierOuterLoop(fileIdentifier, i) ==
    IF i >= Len(validFileIdentifiers) THEN FALSE
    ELSE IF /\ Len(validFileIdentifiers[i + 1]) = Len(fileIdentifier)
            /\ identifierInnerLoop(fileIdentifier, i, 0)
         THEN TRUE
    ELSE identifierOuterLoop(fileIdentifier, i + 1)

\* variant: the length test accepts any input no longer than a magic
validateFileIdentifierNoLengthTest(fileIdentifier) ==
    \E i \in 0..(Len(validFileIdentifiers) - 1) :
        /\ Len(fileIdentifier) <= Len(validFileIdentifiers[i + 1])
        /\ identifierInnerLoop(fileIdentifier, i, 0)

validateFileIdentifier(fileIdentifier) == identifierOuterLoop(fileIdentifier, 0)

validateRootDirectoryType(rootDirectoryType) ==
    rootDirectoryType[1] = RootStorageType

-----------------------------------------------------------------------------
(* Sector locator                                                          *)

\* the loop of calcPower; each product is computed before the next iteration
RECURSIVE calcPowerLoop(_, _, _, _)
calcPowerLoop(y, i, result_, multiplier) ==
    IF i > 1
    THEN IF y % 2 = 0
         THEN LET squared == MulLimbs(multiplier, multiplier)
              IN  IF squared = squared
                  THEN calcPowerLoop(y, i \div 2, result_, squared)
                  ELSE squared
         ELSE LET product == MulLimbs(result_, multiplier)
              IN  IF product = product
                  THEN calcPowerLoop(y, i - 1, product, multiplier)
                  ELSE product
    ELSE MulLimbs(result_, multiplier)

calcPower(x, y) ==
    IF y = 0 THEN FromNat(1, U64Limbs)
    ELSE calcPowerLoop(y, y, FromNat(1, U64Limbs), FromNat(x, U64Limbs))

getSectorPosition(sectorID, sectorSize) ==
    AddLimbs(FromNat(HeaderSize, U64Limbs),
             MulLimbs(FromNat(sectorID, U64Limbs), calcPower(2, sectorSize)))

-----------------------------------------------------------------------------
(* SpecPure: the pure helpers applied to bounded inputs                    *)

Magic1 == validFileIdentifiers[1]
Magic2 == validFileIdentifiers[2]

\* every 8-byte mix of the two magics and zero bytes, every proper prefix of
\* a magic, and every magic followed by extra bytes
IdentifierInputs ==
    {[j \in 1..8 |-> IF c[j] = 1 THEN Magic1[j]
                     ELSE IF c[j] = 2 THEN Magic2[j] ELSE 0] :
        c \in [1..8 -> {1, 2, 3}]}
    \cup {SubSeq(m, 1, l) : m \in {Magic1, Magic2}, l \in 0..7}
    \cup {m \o t : m \in {Magic1, Magic2},
                   t \in UNION {[1..k -> {0, 225}] : k \in 1..(MaxIdLen - 8)}}

\* byte slices of 1..MaxDecodeLen bytes; position j holds 0 or the byte jj hex
DecodeInputs ==
    UNION {[1..n -> {0, 1}] : n \in 1..MaxDecodeLen}

DecodeBytes(c) == [j \in 1..Len(c) |-> IF c[j] = 1 THEN 17 * j ELSE 0]

UUIDGroup1 == { <<\H06, \H09, \H02, \H00>>, <<\H00, \H09, \H02, \H00>>,
                <<\H00, \H02, \H09, \H06>>, <<\H20, \H08, \H02, \H00>>,
                <<\Hff, \Hab, \H01, \H0f>> }
UUIDGroup2 == { <<0, 0>>, <<\H34, \H12>> }
UUIDGroup4 == { <<\Hc0, \H00>>, <<\H00, \Hc0>> }
UUIDGroup5 == { <<0, 0, 0, 0, 0, \H46>>, <<\H46, 0, 0, 0, 0, 0>>,
                <<\H0a, \Hb0, \H0c, \Hd0, \H0e, \Hf0>> }

UUIDInputs ==
    {g1 \o g2 \o g3 \o g4 \o g5 :
        g1 \in UUIDGroup1, g2 \in UUIDGroup2, g3 \in UUIDGroup2,
        g4 \in UUIDGroup4, g5 \in UUIDGroup5}

SectorIDInputs == {0, 1, 2, 3, 255, 256, 65535}

Pending == [done |-> FALSE]
Done(v) == [done |-> TRUE, value |-> v]

NoFile == [exists |-> FALSE, size |-> 0, data |-> <<>>]
NoHandle == [filename |-> "", header |-> <<>>, rootDirectoryEntry |-> <<>>]
NoLocals == [set |-> FALSE, littleEndian |-> FALSE, sectorID |-> 0,
             sectorSize |-> 0, sectorPosition |-> FromNat(0, U64Limbs)]
NoReturn == [returned |-> FALSE, handle |-> "nil", err |-> "nil"]
NoResult == [op |-> "none", name |-> "", value |-> <<>>]

CtorIdle ==
    /\ file = NoFile
    /\ pc = "idle"
    /\ fileOpen = FALSE
    /\ filePos = FromNat(0, U64Limbs)
    /\ cfile = NoHandle
    /\ locals = NoLocals
    /\ ret = NoReturn
    /\ trace = <<>>
    /\ result = NoResult

InitPure ==
    /\ CtorIdle
    /\ out = Pending
    /\ \/ fn = "validateFileIdentifier" /\ arg \in IdentifierInputs
       \/ /\ fn \in {"decodeValueAsUInt64", "decodeValueAsUInt16"}
          /\ arg \in {[littleEndian |-> le, value |-> DecodeBytes(c)] :
                         le \in BOOLEAN, c \in DecodeInputs}
       \/ fn = "decodeValueAsUUID" /\ arg \in UUIDInputs
       \/ /\ fn = "getSectorPosition"
          /\ arg \in [sectorID : SectorIDInputs, sectorSize : 0..MaxExp]

ApplyValidateFileIdentifier ==
    /\ fn = "validateFileIdentifier" /\ ~out.done
    /\ out' = Done(validateFileIdentifier(arg))
    /\ UNCHANGED <<fn, arg>> /\ UNCHANGED ctorVars

ApplyDecodeValueAsUInt64 ==
    /\ fn = "decodeValueAsUInt64" /\ ~out.done
    /\ out' = Done(decodeValueAsUInt64(arg.littleEndian, arg.value))
    /\ UNCHANGED <<fn, arg>> /\ UNCHANGED ctorVars

ApplyDecodeValueAsUInt16 ==
    /\ fn = "decodeValueAsUInt16" /\ ~out.done
    /\ out' = Done(decodeValueAsUInt16(arg.littleEndian, arg.value))
    /\ UNCHANGED <<fn, arg>> /\ UNCHANGED ctorVars

\* the decoder is applied once with each value of its littleEndian flag
ApplyDecodeValueAsUUID ==
    /\ fn = "decodeValueAsUUID" /\ ~out.done
    /\ out' = Done([flagTrue  |-> decodeValueAsUUID(TRUE, arg),
                    flagFalse |-> decodeValueAsUUID(FALSE, arg)])
    /\ UNCHANGED <<fn, arg>> /\ UNCHANGED ctorVars

ApplyGetSectorPosition ==
    /\ fn = "getSectorPosition" /\ ~out.done
    /\ out' = Done(getSectorPosition(arg.sectorID, arg.sectorSize))
    /\ UNCHANGED <<fn, arg>> /\ UNCHANGED ctorVars

NextPure ==
    \/ ApplyValidateFileIdentifier
    \/ ApplyDecodeValueAsUInt64
    \/ ApplyDecodeValueAsUInt16
    \/ ApplyDecodeValueAsUUID
    \/ ApplyGetSectorPosition

SpecPure == InitPure /\ [][NextPure]_vars

-----------------------------------------------------------------------------
(* The file system entry NewCompoundFile opens                             *)

Place(bytes, at) == [o \in at..(at + Len(bytes) - 1) |-> bytes[o - at + 1]]

\* the byte at an offset of the file image; bytes not set are zero
ByteAt(f, off) == IF off \in DOMAIN f.data THEN f.data[off] ELSE 0

WordCLSID    == <<\H06, \H09, \H02, \H00, 0, 0, 0, 0, \Hc0, 0, 0, 0, 0, 0, 0, \H46>>
ExcelCLSID   == <<\H20, \H08, \H02, \H00, 0, 0, 0, 0, \Hc0, 0, 0, 0, 0, 0, 0, \H46>>
\* the Word class id stored big-endian throughout: not a key of the table
UnknownCLSID == <<\H00, \H02, \H09, \H06, 0, 0, 0, 0, \Hc0, 0, 0, 0, 0, 0, 0, \H46>>

BadIdentifier == <<\Hd0, \Hcf, \H11, \He0, \Ha1, \Hb1, \H1a, \H00>>

FileSizes ==
    {0, HeaderSize - 1, HeaderSize + DirEntrySize - 1}
    \cup {HeaderSize + DirEntrySize + HeaderSize * k : k \in 0..MaxSectors}

\* a file of `size` bytes laid out as a compound file whose directory entry
\* of type `type` and class id `clsid` sits in sector `rootAt`
MkFile(size, ident, byteOrder, sectorSizeField, firstSectorField, rootAt, type, clsid) ==
    LET entry == HeaderSize + HeaderSize * rootAt
        full  == Place(ident, headerMap["FileIdentifier"].offset) @@
                 Place(<<byteOrder, 255>>, headerMap["ByteOrderIdentifier"].offset) @@
                 Place(sectorSizeField, headerMap["SizeOfSector"].offset) @@
                 Place(firstSectorField, headerMap["FirstSectorID"].offset) @@
                 Place(<<type>>, entry + directoryMap["Type"].offset) @@
                 Place(clsid, entry + directoryMap["CLSID"].offset)
    IN  [exists |-> TRUE, size |-> size,
         data |-> [o \in {x \in DOMAIN full : x < size} |-> full[o]]]

FileImages ==
    {NoFile} \cup
    {MkFile(size, ident, bo, ssz, fsid, rootAt, e[1], e[2]) :
        size \in FileSizes,
        ident \in {Magic1, Magic2, BadIdentifier},
        bo \in {LittleEndianMark, 255},
        ssz \in {<<9, 0>>, <<0, 9>>, <<6, 0>>, <<63, 0>>, <<64, 0>>},
        fsid \in {<<0, 0, 0, 0>>, <<1, 0, 0, 0>>, <<0, 0, 1, 0>>},
        rootAt \in 0..MaxSectors,
        e \in {<<RootStorageType, WordCLSID>>, <<RootStorageType, ExcelCLSID>>,
               <<RootStorageType, UnknownCLSID>>, <<1, WordCLSID>>}}

-----------------------------------------------------------------------------
(* defaultCompoundFile                                                     *)

getValueFromHeader(cf, fieldname) ==
    IF fieldname \in DOMAIN headerMap
    THEN LET fieldInfo == headerMap[fieldname]
         IN  SubSeq(cf.header, fieldInfo.offset + 1, fieldInfo.offset + fieldInfo.size)
    ELSE <<>>

getValueFromRootDirectory(cf, fieldname) ==
    IF fieldname \in DOMAIN directoryMap
    THEN LET fieldInfo == directoryMap[fieldname]
         IN  SubSeq(cf.rootDirectoryEntry, fieldInfo.offset + 1,
                    fieldInfo.offset + fieldInfo.size)
    ELSE <<>>

isLittleEndian(cf) ==
    getValueFromHeader(cf, "ByteOrderIdentifier")[1] = LittleEndianMark

\* variant: the map is indexed without testing that the key is present
GetMimeTypeNoFallback(cf) ==
    LET uuID == decodeValueAsUUID(isLittleEndian(cf), getValueFromRootDirectory(cf, "CLSID"))
    IN  IF uuID \in DOMAIN uuidMimeTypeMap THEN uuidMimeTypeMap[uuID] ELSE ""

GetMimeType(cf) ==
    LET clsID == getValueFromRootDirectory(cf, "CLSID")
        uuID  == decodeValueAsUUID(isLittleEndian(cf), clsID)
    IN  IF uuID \in DOMAIN uuidMimeTypeMap
        THEN uuidMimeTypeMap[uuID]
        ELSE DefaultMimeType

\* what PrintFileInfo writes to the console, item by item
PrintFileInfo(cf) ==
    [FileIdentifier |-> getValueFromHeader(cf, "FileIdentifier"),
     Filename       |-> cf.filename,
     UUIDOfFile     |-> decodeValueAsUUID(isLittleEndian(cf),
                                          getValueFromHeader(cf, "UUIDOfFile")),
     RevisionNumber |-> getValueFromHeader(cf, "RevisionNumber"),
     VersionNumber  |-> getValueFromHeader(cf, "VersionNumber"),
     LittleEndian   |-> isLittleEndian(cf),
     Type           |-> getValueFromRootDirectory(cf, "Type")]

-----------------------------------------------------------------------------
(* read: Seek (its error is dropped), then io.ReadFull                     *)

\* file.Seek(offset, io.SeekStart): a negative int64 offset is refused and
\* leaves the descriptor where it was
SeekStart(pos, offset) == IF Int64Negative(offset) THEN pos ELSE offset

\* the outcome of read(file, offset, size) with the descriptor at pos:
\* the buffer, the error, where the bytes came from, and the new position
read(f, pos, offset, size) ==
    LET at    == SeekStart(pos, offset)
        fsize == FromNat(f.size, U64Limbs)
        avail == IF LessLimbs(at, fsize) THEN f.size - ToNat(at) ELSE 0
    IN  IF avail >= size
        THEN [buffer |-> [i \in 1..size |-> ByteAt(f, ToNat(at) + i - 1)],
              err |-> "nil", at |-> at,
              pos |-> FromNat(ToNat(at) + size, U64Limbs)]
        ELSE IF avail = 0
        THEN [buffer |-> <<>>, err |-> "EOF", at |-> at, pos |-> at]
        ELSE [buffer |-> <<>>, err |-> "unexpected EOF", at |-> at, pos |-> fsize]

-----------------------------------------------------------------------------
(* NewCompoundFile                                                         *)

Step(name, ok, offset, at) == [step |-> name, ok |-> ok, offset |-> offset, at |-> at]

Zero64 == FromNat(0, U64Limbs)

\* variant: the file is closed on the success path only
ReturnClosingOnSuccessOnly(handle, err) ==
    /\ ret' = [returned |-> TRUE, handle |-> handle, err |-> err]
    /\ fileOpen' = (IF handle = "nil" THEN fileOpen ELSE FALSE)
    /\ pc' = "returned"

\* a return statement of NewCompoundFile; the deferred file.Close() runs
\* when the file was opened
ReturnWith(handle, err) ==
    /\ ret' = [returned |-> TRUE, handle |-> handle, err |-> err]
    /\ fileOpen' = FALSE
    /\ pc' = "returned"

Init ==
    /\ file \in FileImages
    /\ pc = "start"
    /\ fileOpen = FALSE
    /\ filePos = Zero64
    /\ cfile = NoHandle
    /\ locals = NoLocals
    /\ ret = NoReturn
    /\ trace = <<>>
    /\ result = NoResult
    /\ fn = "none" /\ arg = <<>> /\ out = Pending

\* os.Open and the allocation of the handle
OpenFile ==
    /\ pc = "start"
    /\ cfile' = [cfile EXCEPT !.filename = "filepath"]
    /\ trace' = Append(trace, Step("open", file.exists, Zero64, Zero64))
    /\ IF file.exists
       THEN /\ fileOpen' = TRUE
            /\ pc' = "opened"
            /\ UNCHANGED ret
       ELSE /\ ret' = [returned |-> TRUE, handle |-> "nil", err |-> "open"]
            /\ pc' = "returned"
            /\ UNCHANGED fileOpen
    /\ UNCHANGED <<file, filePos, locals, result>> /\ UNCHANGED pureVars

\* read(file, 0, 512) and setHeader
ReadHeader ==
    /\ pc = "opened"
    /\ LET r == read(file, filePos, Zero64, HeaderSize)
       IN  /\ filePos' = r.pos
           /\ trace' = Append(trace, Step("readHeader", r.err = "nil", Zero64, r.at))
           /\ IF r.err # "nil"
              THEN ReturnWith("nil", r.err) /\ UNCHANGED cfile
              ELSE /\ cfile' = [cfile EXCEPT !.header = r.buffer]
                   /\ pc' = "headerRead"
                   /\ UNCHANGED <<ret, fileOpen>>
    /\ UNCHANGED <<file, locals, result>> /\ UNCHANGED pureVars

\* variant: an invalid identifier is noted but construction carries on
ValidateIdentifierNoAbort ==
    /\ pc = "headerRead"
    /\ LET valid == validateFileIdentifier(getValueFromHeader(cfile, "FileIdentifier"))
       IN  trace' = Append(trace, Step("validateFileIdentifier", valid, Zero64, Zero64))
    /\ pc' = "headerValidated"
    /\ UNCHANGED <<file, fileOpen, filePos, cfile, locals, ret, result>>
    /\ UNCHANGED pureVars

ValidateIdentifier ==
    /\ pc = "headerRead"
    /\ LET valid == validateFileIdentifier(getValueFromHeader(cfile, "FileIdentifier"))
       IN  /\ trace' = Append(trace, Step("validateFileIdentifier", valid, Zero64, Zero64))
           /\ IF ~valid
              THEN ReturnWith("nil", "Invalid File Identtifier")
              ELSE pc' = "headerValidated" /\ UNCHANGED <<ret, fileOpen>>
    /\ UNCHANGED <<file, filePos, cfile, locals, result>> /\ UNCHANGED pureVars

\* decode the header fields, locate the sector, read(file, position, 128)
\* and setRootDirectory
ReadRootSector ==
    /\ pc = "headerValidated"
    /\ LET littleEndian == isLittleEndian(cfile)
           sectorID     == decodeValueAsUInt16(littleEndian,
                               getValueFromHeader(cfile, "FirstSectorID"))
           sectorSize   == decodeValueAsUInt16(littleEndian,
                               getValueFromHeader(cfile, "SizeOfSector"))
       IN  locals' = [set |-> TRUE, littleEndian |-> littleEndian,
                      sectorID |-> sectorID, sectorSize |-> sectorSize,
                      sectorPosition |-> getSectorPosition(sectorID, sectorSize)]
    /\ LET sectorPosition == locals'.sectorPosition
           r              == read(file, filePos, sectorPosition, DirEntrySize)
       IN  /\ filePos' = r.pos
           /\ trace' = Append(Append(trace,
                          Step("decodeHeaderFields", TRUE, Zero64, Zero64)),
                          Step("readRoot", r.err = "nil", sectorPosition, r.at))
           /\ IF r.err # "nil"
              THEN ReturnWith("nil", r.err) /\ UNCHANGED cfile
              ELSE /\ cfile' = [cfile EXCEPT !.rootDirectoryEntry = r.buffer]
                   /\ pc' = "rootSectorRead"
                   /\ UNCHANGED <<ret, fileOpen>>
    /\ UNCHANGED <<file, result>> /\ UNCHANGED pureVars

ValidateRootType ==
    /\ pc = "rootSectorRead"
    /\ LET valid == validateRootDirectoryType(getValueFromRootDirectory(cfile, "Type"))
       IN  /\ trace' = Append(trace, Step("validateRootDirectoryType", valid, Zero64, Zero64))
           /\ IF ~valid
              THEN ReturnWith("nil",
                     "Invalid type found while validating root directory. Not a compound file")
              ELSE ReturnWith("cfile", "nil")
    /\ UNCHANGED <<file, filePos, cfile, locals, result>> /\ UNCHANGED pureVars

-----------------------------------------------------------------------------
(* Operations on the handle NewCompoundFile returned                       *)

HasHandle == pc = "returned" /\ ret.handle = "cfile"

\* the names looked up: every name of either schema, and names of neither
FieldNames == DOMAIN headerMap \cup DOMAIN directoryMap \cup {"NoSuchField", ""}

\* a call on the handle: the caller holds no earlier result any more
Invoke(op, name, value) ==
    /\ HasHandle
    /\ result.op = "none"
    /\ result' = [op |-> op, name |-> name, value |-> value]
    /\ UNCHANGED <<file, pc, fileOpen, filePos, cfile, locals, ret, trace>>
    /\ UNCHANGED pureVars

CallGetMimeType == Invoke("GetMimeType", "", GetMimeType(cfile))

CallPrintFileInfo == Invoke("PrintFileInfo", "", PrintFileInfo(cfile))

CallGetValueFromHeader ==
    \E name \in FieldNames :
        Invoke("getValueFromHeader", name, getValueFromHeader(cfile, name))

CallGetValueFromRootDirectory ==
    \E name \in FieldNames :
        Invoke("getValueFromRootDirectory", name, getValueFromRootDirectory(cfile, name))

CallIsLittleEndian == Invoke("isLittleEndian", "", isLittleEndian(cfile))

\* the caller is done with the value an operation returned
DropResult ==
    /\ HasHandle
    /\ result.op # "none"
    /\ result' = NoResult
    /\ UNCHANGED <<file, pc, fileOpen, filePos, cfile, locals, ret, trace>>
    /\ UNCHANGED pureVars

Next ==
    \/ OpenFile
    \/ ReadHeader
    \/ ValidateIdentifier
    \/ ReadRootSector
    \/ ValidateRootType
    \/ CallGetMimeType
    \/ CallPrintFileInfo
    \/ CallGetValueFromHeader
    \/ CallGetValueFromRootDirectory
    \/ CallIsLittleEndian
    \/ DropResult

Spec == Init /\ [][Next]_vars

-----------------------------------------------------------------------------
(* Reference values the claims are stated against                          *)

\* a byte as two lowercase hexadecimal digits
Hex2(b) == HexDigit[(b \div 16) + 1] \o HexDigit[(b % 16) + 1]

\* the n-byte integer denoted by a byte slice, as limbs: its least
\* significant byte is bytes[1] when little-endian, bytes[n] when big-endian
ByteValue(littleEndian, bytes, n) ==
    [i \in 1..n |-> IF i > Len(bytes) THEN 0
                    ELSE IF littleEndian THEN bytes[i]
                    ELSE bytes[Len(bytes) - i + 1]]

\* 512 + sector_index * 2^exponent, exactly, in WideLimbs limbs
\* (sector_index given as limbs, exponent below 64)
TrueSectorOffset(indexLimbs, exponent) ==
    AddLimbs(FromNat(HeaderSize, WideLimbs),
             MulLimbs(Resize(indexLimbs, WideLimbs), Pow2Limbs(exponent, WideLimbs)))

\* the bytes [at, at + n) of the file image, or <<>> when they are not all there
FileBytes(f, at, n) ==
    IF FitsNat(at) /\ ToNat(at) + n <= f.size
    THEN [i \in 1..n |-> ByteAt(f, ToNat(at) + i - 1)]
    ELSE <<>>

Min(S) == CHOOSE x \in S : \A y \in S : x <= y

StepOrder == <<"open", "readHeader", "validateFileIdentifier",
               "decodeHeaderFields", "readRoot", "validateRootDirectoryType">>

StepNames == [i \in 1..Len(trace) |-> trace[i].step]

ReadSteps == {i \in 1..Len(trace) : trace[i].step \in {"readHeader", "readRoot"}}

MimeValues == {uuidMimeTypeMap[k] : k \in DOMAIN uuidMimeTypeMap} \cup {DefaultMimeType}

\* the first-sector index a header supplies: the full value of its 4-byte field
HeaderSectorIndex ==
    ByteValue(locals.littleEndian, getValueFromHeader(cfile, "FirstSectorID"), 4)

\* 512 + index * 2^exponent does not fit the int64 offset of a seek
OffsetOverflows(indexLimbs, exponent) ==
    /\ indexLimbs # FromNat(0, Len(indexLimbs))
    /\ \/ exponent >= 64
       \/ ~LessLimbs(TrueSectorOffset(indexLimbs, exponent), Pow2Limbs(63, WideLimbs))

-----------------------------------------------------------------------------
(* Claims                                                                  *)

\* C1: NewCompoundFile returns either a handle with a nil error, and then the
\* file was opened, the 512 header bytes came from offset 0, the identifier
\* is valid, the 128 entry bytes came from the computed sector position and
\* the entry type is 5; or a nil handle with a non-nil error.
C1_AllOrNothing ==
    pc = "returned" =>
        \/ /\ ret.handle = "cfile"
           /\ ret.err = "nil"
           /\ file.exists
           /\ cfile.header = FileBytes(file, Zero64, HeaderSize)
           /\ Len(cfile.header) = HeaderSize
           /\ SubSeq(cfile.header, 1, 8) \in {Magic1, Magic2}
           /\ locals.set
           /\ cfile.rootDirectoryEntry =
                  FileBytes(file, locals.sectorPosition, DirEntrySize)
           /\ Len(cfile.rootDirectoryEntry) = DirEntrySize
           /\ cfile.rootDirectoryEntry[67] = 5
        \/ /\ ret.handle = "nil"
           /\ ret.err # "nil"

\* the part of C1 that the code does satisfy: a handle comes with a nil error
\* and two full buffers that passed both validations, where the entry is the
\* 128 bytes at the position the read actually used; anything else is a nil
\* handle with an error
HandleXorError ==
    pc = "returned" =>
        \/ /\ ret.handle = "cfile"
           /\ ret.err = "nil"
           /\ cfile.header = FileBytes(file, Zero64, HeaderSize)
           /\ SubSeq(cfile.header, 1, 8) \in {Magic1, Magic2}
           /\ cfile.rootDirectoryEntry =
                  FileBytes(file, trace[Len(trace) - 1].at, DirEntrySize)
           /\ Len(cfile.rootDirectoryEntry) = DirEntrySize
           /\ cfile.rootDirectoryEntry[67] = 5
        \/ /\ ret.handle = "nil"
           /\ ret.err # "nil"

\* C2: on every returned handle GetMimeType yields the table's MIME string
\* when the string decoded from bytes 80..95 of the root directory entry is a
\* key of the table, and "application/octet-stream" otherwise; the value is
\* always one of the table's values or the fallback.
C2_MimeTypeTotal ==
    HasHandle =>
        LET uuID     == decodeValueAsUUID(TRUE, SubSeq(cfile.rootDirectoryEntry, 81, 96))
            expected == IF uuID \in DOMAIN uuidMimeTypeMap
                        THEN uuidMimeTypeMap[uuID]
                        ELSE "application/octet-stream"
        IN  /\ GetMimeType(cfile) = expected
            /\ GetMimeType(cfile) \in MimeValues
            /\ result.op = "GetMimeType" => result.value = expected

C2_Witness ==
    /\ HasHandle
    /\ result.op = "GetMimeType"
    /\ result.value = "application/msword"
    /\ SubSeq(cfile.rootDirectoryEntry, 81, 96) = WordCLSID

\* GetMimeType also reaches the fallback on a handle with an unlisted class id
C2_FallbackReached ==
    /\ HasHandle
    /\ result.op = "GetMimeType"
    /\ result.value = "application/octet-stream"

\* C3: for every sector index and every exponent in 0..31 getSectorPosition
\* returns exactly 512 + sector_index * 2^exponent.
C3_SectorOffsetExact ==
    (fn = "getSectorPosition" /\ out.done /\ arg.sectorSize <= 31) =>
        Resize(out.value, WideLimbs) =
            TrueSectorOffset(FromNat(arg.sectorID, 4), arg.sectorSize)

\* the two offsets the specification lists are computed correctly
C3_ListedOffsets ==
    (fn = "getSectorPosition" /\ out.done /\ arg.sectorSize = 9) =>
        /\ arg.sectorID = 0 => out.value = FromNat(512, U64Limbs)
        /\ arg.sectorID = 1 => out.value = FromNat(1024, U64Limbs)

\* C4: validateFileIdentifier is true exactly for the two 8-byte magics and
\* false for every other byte sequence, whatever its length.
C4_IdentifierExact ==
    (fn = "validateFileIdentifier" /\ out.done) =>
        (out.value <=>
            \/ arg = <<\Hd0, \Hcf, \H11, \He0, \Ha1, \Hb1, \H1a, \He1>>
            \/ arg = <<\H0e, \H11, \Hfc, \H0d, \Hd0, \Hcf, \H11, \He0>>)

C4_Witness ==
    /\ fn = "validateFileIdentifier"
    /\ out.done
    /\ arg = <<\H0e, \H11, \Hfc, \H0d, \Hd0, \Hcf, \H11, \He0>>
    /\ out.value = TRUE

\* a proper prefix of a magic and a magic followed by a byte are both rejected
C4_PrefixRejected ==
    /\ fn = "validateFileIdentifier"
    /\ out.done
    /\ arg = <<\Hd0, \Hcf, \H11, \He0, \Ha1, \Hb1, \H1a>>
    /\ out.value = FALSE

\* the decoded string the claim describes: bytes 3,2,1,0 - 5,4 - 7,6 - 8,9 -
\* 10..15 of the input, two lowercase hexadecimal digits each
MixedEndianString(v) ==
    Hex2(v[4]) \o Hex2(v[3]) \o Hex2(v[2]) \o Hex2(v[1]) \o "-" \o
    Hex2(v[6]) \o Hex2(v[5]) \o "-" \o
    Hex2(v[8]) \o Hex2(v[7]) \o "-" \o
    Hex2(v[9]) \o Hex2(v[10]) \o "-" \o
    Hex2(v[11]) \o Hex2(v[12]) \o Hex2(v[13]) \o Hex2(v[14]) \o
    Hex2(v[15]) \o Hex2(v[16])

ReferenceVector == <<0, 9, 2, 0, 0, 0, 0, 0, \Hc0, 0, 0, 0, 0, 0, 0, \H46>>

\* C5: decodeValueAsUUID gives the same string for both values of its
\* littleEndian flag: groups 1-3 little-endian, groups 4-5 big-endian, lowercase
\* hexadecimal of widths 8-4-4-4-12 joined by dashes.
C5_MixedEndianUUID ==
    (fn = "decodeValueAsUUID" /\ out.done) =>
        /\ out.value.flagTrue = out.value.flagFalse
        /\ out.value.flagTrue = MixedEndianString(arg)
        /\ arg = ReferenceVector =>
               out.value.flagTrue = "00020900-0000-0000-c000-000000000046"

C5_Witness ==
    /\ fn = "decodeValueAsUUID"
    /\ out.done
    /\ arg = ReferenceVector
    /\ out.value.flagFalse = "00020900-0000-0000-c000-000000000046"

\* C6: the first-sector index NewCompoundFile uses to locate the root
\* directory entry is the full 32-bit value of the 4-byte FirstSectorID field
\* (no truncation by the decoder).
C6_SectorIndexIsFullField ==
    locals.set => FromNat(locals.sectorID, 4) = HeaderSectorIndex

\* the same for the decoder alone: an n-byte slice decodes to its n-byte value
C6_DecoderKeepsAllBytes ==
    (fn = "decodeValueAsUInt16" /\ out.done) =>
        FromNat(out.value, U64Limbs) = ByteValue(arg.littleEndian, arg.value, U64Limbs)

\* the 64-bit decoder does return the full value of slices of 1..8 bytes
Decode64KeepsAllBytes ==
    (fn = "decodeValueAsUInt64" /\ out.done /\ Len(arg.value) <= U64Limbs) =>
        out.value = ByteValue(arg.littleEndian, arg.value, U64Limbs)

\* C7: when 512 + sector_index * 2^exponent, for the index and exponent the
\* header supplies, exceeds the offset range, construction fails with an error.
C7_OverflowFailsConstruction ==
    (locals.set /\ validateFileIdentifier(SubSeq(cfile.header, 1, 8))
                /\ OffsetOverflows(HeaderSectorIndex, locals.sectorSize)) =>
        /\ pc = "returned"
        /\ ret.handle = "nil"
        /\ ret.err # "nil"

\* C8: a lookup of a name outside the schema never yields an empty slice, and
\* a lookup of a name inside it yields exactly bytes [offset, offset+size).
C8_UnknownNameNotEmpty ==
    /\ result.op = "getValueFromHeader" =>
          IF result.name \in DOMAIN headerMap
          THEN result.value =
                   [i \in 1..headerMap[result.name].size |->
                       cfile.header[headerMap[result.name].offset + i]]
          ELSE result.value # <<>>
    /\ result.op = "getValueFromRootDirectory" =>
          IF result.name \in DOMAIN directoryMap
          THEN result.value =
                   [i \in 1..directoryMap[result.name].size |->
                       cfile.rootDirectoryEntry[directoryMap[result.name].offset + i]]
          ELSE result.value # <<>>

\* the in-schema half of C8 holds of the code
KnownNameSlice ==
    /\ (result.op = "getValueFromHeader" /\ result.name \in DOMAIN headerMap) =>
          result.value =
              [i \in 1..headerMap[result.name].size |->
                  cfile.header[headerMap[result.name].offset + i]]
    /\ (result.op = "getValueFromRootDirectory" /\ result.name \in DOMAIN directoryMap) =>
          result.value =
              [i \in 1..directoryMap[result.name].size |->
                  cfile.rootDirectoryEntry[directoryMap[result.name].offset + i]]

\* C9: once NewCompoundFile has returned the file is closed and was read at
\* most twice, the header first and then the root directory entry; and no
\* later step (an operation on the handle) opens, seeks or reads it again.
C9_SourceScopedToConstruction ==
    /\ [](pc = "returned" =>
            /\ ~fileOpen
            /\ Cardinality(ReadSteps) <= 2
            /\ \A i \in ReadSteps :
                   trace[i].step = (IF i = Min(ReadSteps) THEN "readHeader" ELSE "readRoot"))
    /\ [][pc = "returned" => UNCHANGED <<file, fileOpen, filePos, trace>>]_vars

C9_Witness ==
    /\ HasHandle
    /\ result.op = "PrintFileInfo"
    /\ ~fileOpen
    /\ Cardinality(ReadSteps) = 2

\* a failing path that had opened the file also ends with the file closed
C9_FailurePathClosed ==
    /\ pc = "returned"
    /\ ret.handle = "nil"
    /\ trace[1].ok
    /\ ~fileOpen

\* C10: the steps run in the fixed order and the first failing step ends
\* construction: nothing runs after a failed step, the header fields are
\* decoded and the second read issued only after the identifier was found
\* valid, and the entry type is checked only on a full 128-byte entry.
C10_FixedOrderFirstFailureAborts ==
    /\ Len(trace) <= Len(StepOrder)
    /\ StepNames = SubSeq(StepOrder, 1, Len(trace))
    /\ \A i \in 1..(Len(trace) - 1) : trace[i].ok
    /\ (trace # <<>> /\ ~trace[Len(trace)].ok) =>
           (pc = "returned" /\ ret.handle = "nil")
    /\ (locals.set \/ \E i \in 1..Len(trace) : trace[i].step = "readRoot") =>
           /\ trace[3].step = "validateFileIdentifier" /\ trace[3].ok
           /\ validateFileIdentifier(SubSeq(cfile.header, 1, 8))
    /\ (\E i \in 1..Len(trace) : trace[i].step = "validateRootDirectoryType") =>
           Len(cfile.rootDirectoryEntry) = DirEntrySize

C10_Witness ==
    /\ pc = "returned"
    /\ Len(trace) = 3
    /\ trace[3].step = "validateFileIdentifier"
    /\ ~trace[3].ok
    /\ Cardinality(ReadSteps) = 1
    /\ ret.handle = "nil"

====
